---- MODULE Spec2Model ----
(***************************************************************************)
(* Model of lib/notification/notificationcomponent.cpp: the notification   *)
(* scheduler thread (NotificationThreadProc), the two ingestion handlers   *)
(* (StateChangeHandler, FlappingChangedHandler), the dispatch task         *)
(* (SendMessageHelper), NextNotificationChangedHandler and Stop.           *)
(*                                                                         *)
(* The scheduler thread, SendMessageHelper and                             *)
(* NextNotificationChangedHandler take m_Mutex.  The two ingestion         *)
(* handlers insert into m_IdleNotifications and call m_CV.notify_all()     *)
(* without taking it, so a handler is enabled whatever m_Mutex is, also    *)
(* between two statements the scheduler thread runs under its lock; these  *)
(* are therefore separate steps.  A handler call is one step, and so is a  *)
(* section run under the scoped lock by a thread other than the scheduler. *)
(***************************************************************************)
EXTENDS Integers, FiniteSets

VARIABLES
    now,                    \* Utility::GetTime(), in ticks
    nextNotification,       \* notification->GetNextNotification(), per notification
    active,                 \* notification->IsActive(), per notification
    m_IdleNotifications,    \* set of NotificationScheduleInfo
    m_PendingNotifications, \* set of NotificationScheduleInfo
    m_Stopped,              \* the shutdown flag read by the scheduler thread
    m_Mutex,                \* "free" or the holder
    signalled,              \* m_CV: a notify_all reached the waiting scheduler thread
    loop_pc,                \* position of NotificationThreadProc
    loop_nsi,               \* its local nsi / notification
    loop_timer,             \* timed_wait: the timeout in ms, then the deadline in ticks
    queued,                 \* per notification: SendMessageHelper tasks queued, send not done
    sent,                   \* per notification: tasks past the send, before the lock
    stop_pc,                \* position of Stop()
    events,                 \* number of signals delivered so far
    resolved,               \* per checkable: its last event ingested was terminal
    checkable_state,        \* what HardStateNotificationCheck reads of the checkable signalled
    send_notification,      \* what HardStateNotificationCheck returned last
    next_changed            \* what NextNotificationChangedHandler found when last run

vars == <<now, nextNotification, active, m_IdleNotifications, m_PendingNotifications,
          m_Stopped, m_Mutex, signalled, loop_pc, loop_nsi, loop_timer, queued, sent,
          stop_pc, events, resolved, checkable_state, send_notification, next_changed>>

----
\* Bounds of the model.

\* Time runs from 0 to MaxTime ticks.
MaxTime == 2

\* At most MaxEvents OnStateChange / OnFlappingChanged signals are delivered.
MaxEvents == 2

\* A tick is half a millisecond, so that a wait can be shorter than 1 ms.
TicksPerMs == 2

Times == 0..MaxTime

\* Two checkables, each with one notification attached.
Checkables == {"c1", "c2"}
Notifications == {"n1", "n2"}

\* ServiceState: ServiceOK = 0, then the three problem states.
ServiceOK == 0
RawStates == 0..3

StateTypeSoft == 0
StateTypeHard == 1
StateTypes == {StateTypeSoft, StateTypeHard}

----
\* NotificationScheduleInfo and the NotificationSet container.

NoNsi == [Object |-> "none", NextMessage |-> 0]

GetNotificationScheduleInfo(notification) ==
    [Object |-> notification, NextMessage |-> nextNotification[notification]]

\* The identities held by a NotificationSet.
Objects(set) == {e.Object : e \in set}

\* NotificationSet::insert: index 0 is unique by Object, an insert of an
\* identity already present leaves the container unchanged.
SetInsert(set, nsi) ==
    IF nsi.Object \in Objects(set) THEN set ELSE set \cup {nsi}

\* NotificationSet::erase(notification): erase by the key of index 0.
SetErase(set, notification) == {e \in set : e.Object # notification}

\* begin() of index 1 (ordered by NextMessage): an entry with the least NextMessage.
SetBegin(set) == {e \in set : \A o \in set : e.NextMessage <= o.NextMessage}

\* notification->BeginExecuteNotification(type, cr, false, reminder): the send.
\* The notification may recompute its next-notification time, from the time of
\* the send on; next is what GetNextNotification() returns after the call.
BeginExecuteNotification(notification, type, reminder, next) ==
    next = nextNotification[notification] \/ next >= now

\* m_CV.notify_all(): reaches the scheduler thread only if it is waiting.
NotifyAll == signalled \/ loop_pc \in {"waiting", "timed_waiting"}

----
\* The checkable as HardStateNotificationCheck reads it.

CheckableStates ==
    [reachable : BOOLEAN, downtime : BOOLEAN, acknowledged : BOOLEAN,
     flapping : BOOLEAN, volatile : BOOLEAN,
     lastStateType : StateTypes, lastStateRaw : RawStates, stateRaw : RawStates]

\* HardStateNotificationCheck without the IsAcknowledged() test.
HardStateNotificationCheck_NoAck(checkable) ==
    IF ~checkable.reachable \/ checkable.downtime \/ checkable.flapping
    THEN FALSE
    ELSE checkable.volatile \/ checkable.lastStateType = StateTypeSoft

\* HardStateNotificationCheck taking every hard-to-hard change for a recovery.
HardStateNotificationCheck_AnyHard(checkable) ==
    IF ~checkable.reachable \/ checkable.downtime
       \/ checkable.acknowledged \/ checkable.flapping
    THEN FALSE
    ELSE checkable.lastStateType = StateTypeHard
         \/ checkable.lastStateRaw # ServiceOK

HardStateNotificationCheck(checkable) ==
    IF ~checkable.reachable \/ checkable.downtime
       \/ checkable.acknowledged \/ checkable.flapping
    THEN FALSE
    ELSE LET s1 == (checkable.lastStateType = StateTypeSoft)
                   \/ (checkable.lastStateType = StateTypeHard
                       /\ checkable.lastStateRaw # ServiceOK
                       /\ checkable.stateRaw = ServiceOK)
             s2 == IF checkable.volatile THEN TRUE ELSE s1
             s3 == IF checkable.lastStateRaw = ServiceOK
                      /\ checkable.lastStateType = StateTypeSoft
                   THEN FALSE ELSE s2
             s4 == IF checkable.volatile /\ checkable.lastStateRaw = ServiceOK
                      /\ checkable.stateRaw = ServiceOK
                   THEN FALSE ELSE s3
         IN  s4

\* What StateChangeHandler reads of one OnStateChange signal, besides the
\* identity of the checkable: the verdict of HardStateNotificationCheck(checkable),
\* cr->GetState() and type.
StateChangeInputs ==
    {[notify |-> HardStateNotificationCheck(state), crState |-> crState,
      type |-> type] :
        state \in CheckableStates, crState \in RawStates, type \in StateTypes}

----
\* The component once Start() has returned.
Start ==
    /\ now = 0
    /\ nextNotification = [n \in Notifications |-> 0]
    /\ active = [n \in Notifications |-> TRUE]
    /\ m_IdleNotifications = {}
    /\ m_PendingNotifications = {}
    /\ m_Stopped = FALSE
    /\ m_Mutex = "free"
    /\ signalled = FALSE
    /\ loop_pc = "lock"
    /\ loop_nsi = NoNsi
    /\ loop_timer = 0
    /\ queued = [n \in Notifications |-> 0]
    /\ sent = [n \in Notifications |-> 0]
    /\ stop_pc = "idle"
    /\ events = 0
    /\ resolved = [c \in Checkables |-> FALSE]
    /\ send_notification = FALSE
    /\ next_changed = "none"

\* A checkable with nothing that suppresses a notification, fresh from a soft problem.
PlainCheckable ==
    [reachable |-> TRUE, downtime |-> FALSE, acknowledged |-> FALSE,
     flapping |-> FALSE, volatile |-> FALSE,
     lastStateType |-> StateTypeSoft, lastStateRaw |-> 2, stateRaw |-> 2]

Init == Start /\ checkable_state = PlainCheckable

----
\* The scheduler thread, NotificationThreadProc.

\* boost::mutex::scoped_lock lock(m_Mutex) on entry, lock.lock() after a submission.
LoopLock ==
    /\ loop_pc = "lock"
    /\ m_Mutex = "free"
    /\ m_Mutex' = "loop"
    /\ loop_pc' = "check"
    /\ UNCHANGED <<checkable_state, send_notification, next_changed,
                   now, nextNotification, active, m_IdleNotifications,
                   m_PendingNotifications, m_Stopped, signalled, loop_nsi, loop_timer,
                   queued, sent, stop_pc, events, resolved>>

\* NotYetDue with the comparison off by one tick.
NotYetDue_OffByOne(nsi, t) == nsi.NextMessage - t > 1

\* wait = nsi.NextMessage - Utility::GetTime(); if (wait > 0)
NotYetDue(nsi, t) == nsi.NextMessage - t > 0

\* boost::posix_time::milliseconds(long(wait * 1000)): whole milliseconds, truncated.
TimeoutMs(nsi, t) == (nsi.NextMessage - t) \div TicksPerMs

\* The head of the for (;;) body: the while condition, the m_Stopped test,
\* the peek at idx.begin() and the decision to wait or to promote.
LoopCheck ==
    /\ loop_pc = "check"
    /\ IF m_IdleNotifications = {} /\ ~m_Stopped
       THEN /\ loop_pc' = "to_wait"
            /\ UNCHANGED <<m_Mutex, loop_nsi, loop_timer>>
       ELSE IF m_Stopped
       THEN /\ loop_pc' = "exited"
            /\ m_Mutex' = "free"
            /\ UNCHANGED <<loop_nsi, loop_timer>>
       ELSE \E nsi \in SetBegin(m_IdleNotifications) :
              IF NotYetDue(nsi, now)
              THEN /\ loop_pc' = "to_timed"
                   /\ loop_timer' = TimeoutMs(nsi, now)
                   /\ UNCHANGED <<m_Mutex, loop_nsi>>
              ELSE /\ loop_pc' = "erase"
                   /\ loop_nsi' = nsi
                   /\ UNCHANGED <<m_Mutex, loop_timer>>
    /\ UNCHANGED <<checkable_state, send_notification, next_changed,
                   now, nextNotification, active, m_IdleNotifications,
                   m_PendingNotifications, m_Stopped, signalled,
                   queued, sent, stop_pc, events, resolved>>

\* m_CV.wait(lock): releases the mutex and suspends.
LoopWait ==
    /\ loop_pc = "to_wait"
    /\ loop_pc' = "waiting"
    /\ m_Mutex' = "free"
    /\ signalled' = FALSE
    /\ UNCHANGED <<checkable_state, send_notification, next_changed,
                   now, nextNotification, active, m_IdleNotifications,
                   m_PendingNotifications, m_Stopped, loop_nsi, loop_timer,
                   queued, sent, stop_pc, events, resolved>>

\* m_CV.timed_wait(lock, ms): releases the mutex and suspends until now + ms.
LoopTimedWait ==
    /\ loop_pc = "to_timed"
    /\ loop_pc' = "timed_waiting"
    /\ m_Mutex' = "free"
    /\ signalled' = FALSE
    /\ loop_timer' = now + loop_timer * TicksPerMs
    /\ UNCHANGED <<checkable_state, send_notification, next_changed,
                   now, nextNotification, active, m_IdleNotifications,
                   m_PendingNotifications, m_Stopped, loop_nsi,
                   queued, sent, stop_pc, events, resolved>>

\* The wait returns: notified, or (timed_wait) timed out; it re-acquires the mutex.
LoopWake ==
    /\ \/ loop_pc = "waiting" /\ signalled
       \/ loop_pc = "timed_waiting" /\ (signalled \/ now >= loop_timer)
    /\ m_Mutex = "free"
    /\ m_Mutex' = "loop"
    /\ loop_pc' = "check"
    /\ signalled' = FALSE
    /\ loop_timer' = 0
    /\ UNCHANGED <<checkable_state, send_notification, next_changed,
                   now, nextNotification, active, m_IdleNotifications,
                   m_PendingNotifications, m_Stopped, loop_nsi,
                   queued, sent, stop_pc, events, resolved>>

\* A condition variable may also return spuriously.
LoopSpuriousWake ==
    /\ loop_pc \in {"waiting", "timed_waiting"}
    /\ ~signalled
    /\ m_Mutex = "free"
    /\ m_Mutex' = "loop"
    /\ loop_pc' = "check"
    /\ loop_timer' = 0
    /\ UNCHANGED <<checkable_state, send_notification, next_changed,
                   now, nextNotification, active, m_IdleNotifications,
                   m_PendingNotifications, m_Stopped, signalled, loop_nsi,
                   queued, sent, stop_pc, events, resolved>>

\* notification = nsi.Object; m_IdleNotifications.erase(notification)
LoopErase ==
    /\ loop_pc = "erase"
    /\ m_IdleNotifications' = SetErase(m_IdleNotifications, loop_nsi.Object)
    /\ loop_pc' = "pend"
    /\ UNCHANGED <<checkable_state, send_notification, next_changed,
                   now, nextNotification, active, m_PendingNotifications, m_Stopped,
                   m_Mutex, signalled, loop_nsi, loop_timer,
                   queued, sent, stop_pc, events, resolved>>

\* nsi = GetNotificationScheduleInfo(notification); m_PendingNotifications.insert(nsi)
LoopPend ==
    /\ loop_pc = "pend"
    /\ loop_nsi' = GetNotificationScheduleInfo(loop_nsi.Object)
    /\ m_PendingNotifications' = SetInsert(m_PendingNotifications, loop_nsi')
    /\ loop_pc' = "unlock"
    /\ UNCHANGED <<checkable_state, send_notification, next_changed,
                   now, nextNotification, active, m_IdleNotifications, m_Stopped,
                   m_Mutex, signalled, loop_timer,
                   queued, sent, stop_pc, events, resolved>>

\* LoopUnlock going on to the submission with the mutex still held.
LoopUnlock_Held ==
    /\ loop_pc = "unlock"
    /\ loop_pc' = "submit"
    /\ UNCHANGED <<checkable_state, send_notification, next_changed,
                   now, nextNotification, active, m_IdleNotifications,
                   m_PendingNotifications, m_Stopped, m_Mutex, signalled, loop_nsi,
                   loop_timer, queued, sent, stop_pc, events, resolved>>

\* lock.unlock()
LoopUnlock ==
    /\ loop_pc = "unlock"
    /\ m_Mutex' = "free"
    /\ loop_pc' = "submit"
    /\ UNCHANGED <<checkable_state, send_notification, next_changed,
                   now, nextNotification, active, m_IdleNotifications,
                   m_PendingNotifications, m_Stopped, signalled, loop_nsi, loop_timer,
                   queued, sent, stop_pc, events, resolved>>

\* Utility::QueueAsyncCallback(SendMessageHelper(notification,
\* NotificationProblem, true)); the lock.lock() that follows is LoopLock.
LoopSubmit ==
    /\ loop_pc = "submit"
    /\ queued' = [queued EXCEPT ![loop_nsi.Object] = @ + 1]
    /\ loop_nsi' = NoNsi
    /\ loop_pc' = "lock"
    /\ UNCHANGED <<checkable_state, send_notification, next_changed,
                   now, nextNotification, active, m_IdleNotifications,
                   m_PendingNotifications, m_Stopped, m_Mutex, signalled, loop_timer,
                   sent, stop_pc, events, resolved>>

NotificationThreadProc ==
    \/ LoopLock \/ LoopCheck \/ LoopWait \/ LoopTimedWait \/ LoopWake
    \/ LoopSpuriousWake \/ LoopErase \/ LoopPend \/ LoopUnlock \/ LoopSubmit

----
\* The dispatch task, SendMessageHelper(notification, NotificationProblem, true).

\* notification->BeginExecuteNotification(type, ..., false, reminder): the send.
\* It returns (ok) or raises, and an exception leaves SendMessageHelper at once.
TaskSend(notification) ==
    /\ queued[notification] > 0
    /\ queued' = [queued EXCEPT ![notification] = @ - 1]
    /\ \E next \in Times :
         /\ BeginExecuteNotification(notification, "NotificationProblem", TRUE, next)
         /\ nextNotification' = [nextNotification EXCEPT ![notification] = next]
    /\ \E ok \in BOOLEAN :
         sent' = IF ok THEN [sent EXCEPT ![notification] = @ + 1] ELSE sent
    /\ UNCHANGED <<checkable_state, send_notification, next_changed,
                   now, active, m_IdleNotifications,
                   m_PendingNotifications, m_Stopped, m_Mutex, signalled, loop_pc,
                   loop_nsi, loop_timer, stop_pc, events, resolved>>

\* The rest of SendMessageHelper, under the scoped lock.
TaskComplete(notification) ==
    /\ sent[notification] > 0
    /\ m_Mutex = "free"
    /\ sent' = [sent EXCEPT ![notification] = @ - 1]
    /\ IF notification \in Objects(m_PendingNotifications)
       THEN /\ m_PendingNotifications' = SetErase(m_PendingNotifications, notification)
            /\ m_IdleNotifications' =
                 IF active[notification]
                 THEN SetInsert(m_IdleNotifications,
                                GetNotificationScheduleInfo(notification))
                 ELSE m_IdleNotifications
            /\ signalled' = NotifyAll
       ELSE UNCHANGED <<m_PendingNotifications, m_IdleNotifications, signalled>>
    /\ UNCHANGED <<checkable_state, send_notification, next_changed,
                   now, nextNotification, active, m_Stopped, m_Mutex, loop_pc,
                   loop_nsi, loop_timer, queued, stop_pc, events, resolved>>

SendMessageHelper ==
    \E notification \in Notifications :
        TaskSend(notification) \/ TaskComplete(notification)

----
\* Event ingestion.  Neither handler takes m_Mutex.

\* checkable->GetNotifications()
GetNotifications(checkable) == IF checkable = "c1" THEN {"n1"} ELSE {"n2"}

\* StateChangeQueues testing for the wrong type.
StateChangeQueues_WrongType(ntype) == ntype # "NotificationProblem"

\* "if (ntype != NotificationRecovery)" of StateChangeHandler.
StateChangeQueues(ntype) == ntype # "NotificationRecovery"

\* "if (ntype != NotificationFlappingEnd)" of FlappingChangedHandler.
FlappingQueues(ntype) == ntype # "NotificationFlappingEnd"

\* The for loop of both handlers over the notifications todo: for each, the
\* immediate send and then (queues) m_IdleNotifications.insert of its schedule
\* info; next is the next-notification time of each after its send.
RECURSIVE ForEachNotification(_, _, _, _)
ForEachNotification(set, todo, queues, next) ==
    IF todo = {} THEN set
    ELSE LET notification == CHOOSE n \in todo : TRUE
             nsi == [Object |-> notification, NextMessage |-> next[notification]]
         IN  ForEachNotification(IF queues THEN SetInsert(set, nsi) ELSE set,
                                 todo \ {notification}, queues, next)

\* The body both handlers share once the event is classified as ntype.
Ingest(checkable, ntype, queues) ==
    /\ \E next \in [Notifications -> Times] :
         /\ \A n \in Notifications :
              IF n \in GetNotifications(checkable)
              THEN BeginExecuteNotification(n, ntype, FALSE, next[n])
              ELSE next[n] = nextNotification[n]
         /\ nextNotification' = next
         /\ m_IdleNotifications' =
              ForEachNotification(m_IdleNotifications, GetNotifications(checkable), queues,
                                  next)
    /\ signalled' = IF queues /\ GetNotifications(checkable) # {} THEN NotifyAll ELSE signalled
    /\ resolved' = [resolved EXCEPT ![checkable] = ~queues]

\* StateChangeHandler(checkable, cr, type), in being what it reads of cr, type
\* and the checkable's state.
StateChangeHandler(checkable, in) ==
    /\ events < MaxEvents
    /\ events' = events + 1
    /\ IF ~in.notify \/ in.type # StateTypeHard
       THEN UNCHANGED <<nextNotification, m_IdleNotifications, signalled, resolved>>
       ELSE LET ntype == IF in.crState = 0 THEN "NotificationRecovery"
                         ELSE "NotificationProblem"
            IN  Ingest(checkable, ntype, StateChangeQueues(ntype))
    /\ UNCHANGED <<now, active, m_PendingNotifications, m_Stopped, m_Mutex, loop_pc,
                   loop_nsi, loop_timer, queued, sent, stop_pc, next_changed>>

\* FlappingChangedHandler(checkable), isFlapping being checkable->IsFlapping().
FlappingChangedHandler(checkable, isFlapping) ==
    /\ events < MaxEvents
    /\ events' = events + 1
    /\ LET ntype == IF isFlapping THEN "NotificationFlappingStart"
                    ELSE "NotificationFlappingEnd"
       IN  Ingest(checkable, ntype, FlappingQueues(ntype))
    /\ UNCHANGED <<checkable_state, send_notification, next_changed,
                   now, active, m_PendingNotifications, m_Stopped, m_Mutex, loop_pc,
                   loop_nsi, loop_timer, queued, sent, stop_pc>>

\* NextNotificationChangedHandler inserting also when it found no entry.
NextNotificationChangedHandler_Upsert(notification) ==
    /\ m_Mutex = "free"
    /\ m_IdleNotifications' =
         SetInsert(SetErase(m_IdleNotifications, notification),
                   GetNotificationScheduleInfo(notification))
    /\ signalled' = NotifyAll
    /\ UNCHANGED <<checkable_state, send_notification,
                   now, nextNotification, active, m_PendingNotifications, m_Stopped,
                   m_Mutex, loop_pc, loop_nsi, loop_timer, queued, sent,
                   stop_pc, events, resolved>>

\* NextNotificationChangedHandler(notification, origin), under the scoped lock.
NextNotificationChangedHandler(notification) ==
    /\ m_Mutex = "free"
    /\ IF notification \notin Objects(m_IdleNotifications)
       THEN UNCHANGED <<m_IdleNotifications, signalled>>
       ELSE /\ m_IdleNotifications' =
                 SetInsert(SetErase(m_IdleNotifications, notification),
                           GetNotificationScheduleInfo(notification))
            /\ signalled' = NotifyAll
    /\ UNCHANGED <<checkable_state, send_notification,
                   now, nextNotification, active, m_PendingNotifications, m_Stopped,
                   m_Mutex, loop_pc, loop_nsi, loop_timer, queued, sent,
                   stop_pc, events, resolved>>

----
\* Stop(): m_Thread.join() is its first statement; it neither writes m_Stopped
\* nor notifies m_CV.
Stop ==
    /\ stop_pc = "idle"
    /\ stop_pc' = "join"
    /\ UNCHANGED <<checkable_state, send_notification, next_changed,
                   now, nextNotification, active, m_IdleNotifications,
                   m_PendingNotifications, m_Stopped, m_Mutex, signalled, loop_pc,
                   loop_nsi, loop_timer, queued, sent, events,
                   resolved>>

\* join() returns once the scheduler thread has left NotificationThreadProc.
StopReturned == stop_pc = "join" /\ loop_pc = "exited"

----
\* The environment: time passes, a notification is deactivated.

Tick ==
    /\ now < MaxTime
    /\ now' = now + 1
    /\ UNCHANGED <<checkable_state, send_notification, next_changed,
                   nextNotification, active, m_IdleNotifications,
                   m_PendingNotifications, m_Stopped, m_Mutex, signalled, loop_pc,
                   loop_nsi, loop_timer, queued, sent, stop_pc, events, resolved>>

Deactivate(notification) ==
    /\ active[notification]
    /\ active' = [active EXCEPT ![notification] = FALSE]
    /\ UNCHANGED <<checkable_state, send_notification, next_changed,
                   now, nextNotification, m_IdleNotifications,
                   m_PendingNotifications, m_Stopped, m_Mutex, signalled, loop_pc,
                   loop_nsi, loop_timer, queued, sent, stop_pc, events, resolved>>

----
Next ==
    \/ NotificationThreadProc
    \/ SendMessageHelper
    \/ \E checkable \in Checkables, in \in StateChangeInputs :
         /\ StateChangeHandler(checkable, in)
         /\ UNCHANGED <<checkable_state, send_notification>>
    \/ \E checkable \in Checkables, isFlapping \in BOOLEAN :
         FlappingChangedHandler(checkable, isFlapping)
    \/ \E notification \in Notifications :
         NextNotificationChangedHandler(notification) /\ UNCHANGED next_changed
    \/ Tick

\* The running component.
Spec == Init /\ [][Next]_vars

\* The component with notifications being deactivated while it runs.
NextDeactivate == Next \/ \E notification \in Notifications : Deactivate(notification)

SpecDeactivate == Init /\ [][NextDeactivate]_vars

\* The component with its owner calling Stop() at some point.
NextStop == Next \/ Stop

SpecStop == Init /\ [][NextStop]_vars

----
\* OnStateChange signals for a checkable in any state HardStateNotificationCheck
\* can read: StateChangeHandler with the verdict computed from that state.

InitCheck == Start /\ checkable_state \in CheckableStates

OnStateChange(checkable, crState, type) ==
    /\ send_notification' = HardStateNotificationCheck(checkable_state)
    /\ StateChangeHandler(checkable, [notify |-> send_notification',
                                      crState |-> crState, type |-> type])
    /\ UNCHANGED checkable_state

NextCheck ==
    \E checkable \in Checkables, crState \in RawStates, type \in StateTypes :
        OnStateChange(checkable, crState, type)

SpecCheck == InitCheck /\ [][NextCheck]_vars

----
\* The component with Notification::OnNextNotificationChanged delivered, at a
\* fixed time: no step of it but the scheduler thread's reads the clock.

OnNextNotificationChanged(notification) ==
    /\ NextNotificationChangedHandler(notification)
    /\ next_changed' =
         IF notification \notin Objects(m_IdleNotifications) THEN "absent"
         ELSE IF GetNotificationScheduleInfo(notification) \in m_IdleNotifications
         THEN "found" ELSE "refreshed"

NextNextChanged ==
    \/ NotificationThreadProc
    \/ SendMessageHelper
    \/ \E checkable \in Checkables, in \in StateChangeInputs :
         /\ StateChangeHandler(checkable, in)
         /\ UNCHANGED <<checkable_state, send_notification>>
    \/ \E checkable \in Checkables, isFlapping \in BOOLEAN :
         FlappingChangedHandler(checkable, isFlapping)
    \/ \E notification \in Notifications : OnNextNotificationChanged(notification)

SpecNextChanged == Init /\ [][NextNextChanged]_vars

----
\* Shorthands for the properties below.

\* The checkable a notification is attached to: notification->GetCheckable().
GetCheckable(notification) ==
    CHOOSE checkable \in Checkables : notification \in GetNotifications(checkable)

\* The SendMessageHelper tasks in flight for a notification: queued by the
\* scheduler thread and not yet returned.
InFlight(notification) == queued[notification] + sent[notification]

\* The scheduler thread takes the promotion step (the erase from Idle).
Promotion == loop_pc = "erase" /\ loop_pc' = "pend"

\* The scheduler thread queues a reminder dispatch for the notification.
Launch(notification) == queued'[notification] > queued[notification]

\* A SendMessageHelper task of the notification runs its part under the lock.
Completion(notification) == sent'[notification] < sent[notification]

----
\* C1 (Invariant I1): each notification identity is in at most one of Idle
\* and Pending, and at most once inside each of them.
C1_InvariantI1 ==
    \A n \in Notifications :
        /\ ~(n \in Objects(m_IdleNotifications)
             /\ n \in Objects(m_PendingNotifications))
        /\ Cardinality({e \in m_IdleNotifications : e.Object = n}) <= 1
        /\ Cardinality({e \in m_PendingNotifications : e.Object = n}) <= 1

\* C2 (no double dispatch): for every notification at most one reminder
\* dispatch task queued by the scheduler thread is in flight.
C2_NoDoubleDispatch ==
    \A n \in Notifications : InFlight(n) <= 1

\* C3 (no missed wake-up), as the safety property the claim rests on: the
\* scheduler thread is never suspended in the untimed wait, with no
\* notify_all delivered to it, while Idle holds an entry.  From such a state
\* nothing but a further external event makes it promote the entry.
C3_NoMissedWakeup ==
    ~(loop_pc = "waiting" /\ ~signalled /\ m_IdleNotifications # {})

\* C4 (no premature promotion): whenever the scheduler thread removes an
\* entry from Idle to promote it, the removed entry's NextMessage is <= now.
C4_NoPrematurePromotion ==
    [][Promotion =>
         \A e \in m_IdleNotifications \ m_IdleNotifications' :
             e.NextMessage <= now]_vars

\* A promotion of an entry that became due exactly now, after time had to pass.
C4_Witness ==
    /\ loop_pc = "pend"
    /\ loop_nsi.Object \notin Objects(m_IdleNotifications)
    /\ loop_nsi.NextMessage = now
    /\ now > 0

\* C5 (ordering): at every promotion the promoted entry is the entry of Idle
\* with the least NextMessage at that instant.
C5_PromotesMinimum ==
    [][Promotion =>
         \A e \in m_IdleNotifications \ m_IdleNotifications' :
             \A o \in m_IdleNotifications : e.NextMessage <= o.NextMessage]_vars

\* C6 (shutdown terminates), its first step: once Stop() has been called the
\* shutdown flag is set (without which the scheduler thread never leaves its
\* loop and Stop() never returns).
C6_StopSetsShutdownFlag ==
    stop_pc = "join" => m_Stopped

\* C7 (a failed send still re-admits): no identity stays in Pending with no
\* dispatch task left to remove it: every Pending entry has a task in flight,
\* or the scheduler thread is about to queue it.
C7_PendingHasTask ==
    \A n \in Objects(m_PendingNotifications) :
        InFlight(n) > 0 \/ (loop_pc \in {"unlock", "submit"} /\ loop_nsi.Object = n)

\* C8 (reminders stop when the condition resolves): the scheduler thread
\* launches no reminder dispatch for a notification whose checkable's last
\* ingested event was a Recovery or a FlappingEnd.
C8_NoReminderAfterRecovery ==
    [][\A n \in Notifications : Launch(n) => ~resolved[GetCheckable(n)]]_vars

\* C9 (terminal events do not schedule): an OnStateChange event classified as
\* Recovery and an OnFlappingChanged event classified as FlappingEnd run the
\* handler's loop of sends and leave Idle unchanged.
C9_TerminalEventsDoNotSchedule ==
    [][\A c \in Checkables :
         /\ \A in \in StateChangeInputs :
              (in.notify /\ in.type = StateTypeHard /\ in.crState = ServiceOK
               /\ StateChangeHandler(c, in))
              => (m_IdleNotifications' = m_IdleNotifications /\ resolved'[c])
         /\ FlappingChangedHandler(c, FALSE)
              => (m_IdleNotifications' = m_IdleNotifications /\ resolved'[c])]_vars

\* A terminal event has been ingested for c1 while Idle holds an entry of its
\* notification that the event did not refresh.
C9_Witness ==
    /\ resolved["c1"]
    /\ \E e \in m_IdleNotifications :
         e.Object = "n1" /\ e.NextMessage # nextNotification["n1"]

\* C10 (inactive notifications are dropped at completion): when a completion
\* finds the notification in Pending and inactive, the Pending entry is removed,
\* Idle is left as it is, and the identity is then in neither set.
C10_InactiveDropped ==
    [][\A n \in Notifications :
         (Completion(n) /\ n \in Objects(m_PendingNotifications) /\ ~active[n])
         => /\ n \notin Objects(m_PendingNotifications')
            /\ m_IdleNotifications' = m_IdleNotifications
            /\ n \notin Objects(m_IdleNotifications')]_vars

----
\* HardStateNotificationCheck, under SpecCheck.

\* None of the conditions of the early "return false" holds for the checkable.
Unsuppressed(checkable) ==
    /\ checkable.reachable /\ ~checkable.downtime
    /\ ~checkable.acknowledged /\ ~checkable.flapping

\* StateChangeHandler has run for the checkable, send_notification is its verdict.
Checked == events > 0

\* C11 (decision rule 3): for a checkable that is reachable, not in downtime,
\* not acknowledged, not flapping and not volatile, whose previous state type
\* is soft, the check returns false when previous and current raw state are both
\* OK and true for every other pair of raw states.
C11_SoftToHard ==
    (Checked /\ Unsuppressed(checkable_state) /\ ~checkable_state.volatile
     /\ checkable_state.lastStateType = StateTypeSoft)
    => (send_notification
        <=> ~(checkable_state.lastStateRaw = ServiceOK
              /\ checkable_state.stateRaw = ServiceOK))

\* C12 (decision rule 4): for a volatile checkable that is reachable, not in
\* downtime, not acknowledged and not flapping, the check returns false when
\* previous and current raw state are both OK and true otherwise, whatever the
\* previous state type.
C12_VolatileHard ==
    (Checked /\ Unsuppressed(checkable_state) /\ checkable_state.volatile)
    => (send_notification
        <=> ~(checkable_state.lastStateRaw = ServiceOK
              /\ checkable_state.stateRaw = ServiceOK))

\* C13 (rules 1-2 take precedence): for a checkable that is unreachable, in
\* downtime, acknowledged or flapping the check returns false whatever the
\* rest of its state, and StateChangeHandler then sends nothing (no
\* notification's next-notification time moves), leaves Idle as it is and
\* does not notify the scheduler thread.
C13_SuppressedDoesNothing ==
    [][\A c \in Checkables, crState \in RawStates, type \in StateTypes :
         (~Unsuppressed(checkable_state) /\ OnStateChange(c, crState, type))
         => /\ ~send_notification'
            /\ UNCHANGED <<nextNotification, m_IdleNotifications, signalled>>]_vars

\* The handler has run for an acknowledged, volatile checkable in a problem
\* state that was soft before: every later rule would have it notify.
C13_Witness ==
    /\ Checked
    /\ checkable_state.acknowledged /\ checkable_state.reachable
    /\ ~checkable_state.downtime /\ ~checkable_state.flapping
    /\ checkable_state.volatile
    /\ checkable_state.lastStateType = StateTypeSoft
    /\ checkable_state.lastStateRaw # ServiceOK
    /\ checkable_state.stateRaw # ServiceOK
    /\ ~send_notification

\* C19 (hard-to-hard transitions): for a checkable that is reachable, not in
\* downtime, not acknowledged, not flapping and not volatile, whose previous
\* state type is hard, the check returns true exactly when the previous raw
\* state is not OK and the current raw state is OK.
C19_HardToHard ==
    (Checked /\ Unsuppressed(checkable_state) /\ ~checkable_state.volatile
     /\ checkable_state.lastStateType = StateTypeHard)
    => (send_notification
        <=> (checkable_state.lastStateRaw # ServiceOK
             /\ checkable_state.stateRaw = ServiceOK))

\* The check has returned true for a hard recovery of a plain checkable.
C19_Witness ==
    /\ Checked /\ Unsuppressed(checkable_state) /\ ~checkable_state.volatile
    /\ checkable_state.lastStateType = StateTypeHard
    /\ checkable_state.lastStateRaw # ServiceOK
    /\ checkable_state.stateRaw = ServiceOK
    /\ send_notification

----
\* C14 (every mutation under the mutex): while the scheduler thread holds
\* m_Mutex no other thread inserts into or removes from Idle or Pending: a
\* step that changes one of the sets at such a moment is a step of the
\* scheduler thread.
C14_MutationsUnderMutex ==
    [][(m_Mutex = "loop"
        /\ (m_IdleNotifications' # m_IdleNotifications
            \/ m_PendingNotifications' # m_PendingNotifications))
       => loop_pc' # loop_pc]_vars

\* C15 (ingestion refreshes stale entries): after an OnStateChange event
\* classified as Problem, or an OnFlappingChanged event classified as
\* FlappingStart, Idle holds exactly one entry for each attached notification
\* and its NextMessage is the notification's next-notification time read at
\* that event.
C15_IngestionRefreshes ==
    [][\A c \in Checkables :
         ((\E in \in StateChangeInputs :
              /\ in.notify /\ in.type = StateTypeHard /\ in.crState # ServiceOK
              /\ StateChangeHandler(c, in))
          \/ FlappingChangedHandler(c, TRUE))
         => \A n \in GetNotifications(c) :
              {e \in m_IdleNotifications' : e.Object = n}
                  = {GetNotificationScheduleInfo(n)'}]_vars

\* C16 (completion after shutdown is a guarded no-op): a completion that runs
\* after Stop() has been called inserts no entry into Idle.
C16_NoReadmissionAfterStop ==
    [][\A n \in Notifications :
         (Completion(n) /\ stop_pc = "join")
         => m_IdleNotifications' = m_IdleNotifications]_vars

\* C18 (the loop never busy-spins): whenever the scheduler thread goes into
\* the timed wait, for an entry that is not yet due, the timeout it passes is
\* strictly positive.
C18_PositiveTimeout ==
    loop_pc = "to_timed" => loop_timer > 0

\* A notification is sent to: by an ingestion handler or by a dispatch task.
HandlerSend == events' # events
TaskSent(notification) == queued'[notification] < queued[notification]

\* C17 (no send holds the scheduler lock): the scheduler thread does not hold
\* m_Mutex when it submits a dispatch, and a step in which an ingestion handler
\* or a dispatch task sends is not a step of the thread holding m_Mutex, nor
\* one that takes it.
C17_NoSendHoldsLock ==
    [][/\ \A n \in Notifications : Launch(n) => m_Mutex # "loop"
       /\ (HandlerSend \/ \E n \in Notifications : TaskSent(n))
          => (loop_pc' = loop_pc /\ m_Mutex' = m_Mutex)]_vars

\* A dispatch has been submitted and the scheduler thread has not yet locked
\* the mutex again.
C17_Witness ==
    /\ loop_pc = "lock"
    /\ m_Mutex = "free"
    /\ \E n \in Notifications :
         queued[n] > 0 /\ n \in Objects(m_PendingNotifications)

\* C20 (next-due change handler): NextNotificationChangedHandler never
\* changes which identities are in Idle and never touches Pending; if the
\* notification has an Idle entry, the entry's NextMessage afterwards is the
\* notification's current next-notification time and the scheduler thread is
\* notified; if it has none (also when it is in Pending), both sets are left
\* unchanged and nothing is notified.
C20_NextNotificationChangedFrame ==
    [][\A n \in Notifications :
         OnNextNotificationChanged(n)
         => /\ Objects(m_IdleNotifications') = Objects(m_IdleNotifications)
            /\ m_PendingNotifications' = m_PendingNotifications
            /\ IF n \in Objects(m_IdleNotifications)
               THEN /\ {e \in m_IdleNotifications' : e.Object = n}
                          = {GetNotificationScheduleInfo(n)}
                    /\ \A e \in m_IdleNotifications :
                          e.Object # n => e \in m_IdleNotifications'
                    /\ signalled' = NotifyAll
               ELSE UNCHANGED <<m_IdleNotifications, signalled>>]_vars

\* The handler found an entry with a stale time, and the waiting scheduler
\* thread is notified of the refreshed one.
C20_Witness ==
    /\ next_changed = "refreshed"
    /\ loop_pc \in {"waiting", "timed_waiting"}
    /\ signalled
    /\ \E e \in m_IdleNotifications : e = GetNotificationScheduleInfo(e.Object)

====
